---- MODULE Spec2Model ----
(***************************************************************************)
(* Graph evaluation of rust-autograd (src/src/eval.rs): the recursive      *)
(* walker perform_eval, the chain resolvers seek_array / seek_array_owner, *)
(* the owning entry point eval_tensors (behind eval) and the borrowing     *)
(* entry point eval_tensors_ref (behind run).                              *)
(*                                                                         *)
(* An array is a record [buf, val]: buf is the identity of the physical    *)
(* buffer (moves keep it, clone() allocates a new one), val its content.   *)
(* A node of the graph is a number; its inputs are lower-numbered nodes,   *)
(* so every graph is acyclic.  Indices are 1-based: Delegate { to: i } of  *)
(* the source is to = i + 1 here, inputs[0] of the source is Inputs(x)[1]. *)
(***************************************************************************)
EXTENDS Integers, Sequences, FiniteSets, TLC

\* ---------------------------------------------------------------- bounds
MaxReq == 2      \* longest request list xs handed to an entry point
MaxCalls == 2    \* entry point calls made on one context
CountCap == 2    \* operator invocation counters saturate here
ValMod == 7      \* array contents are numbers modulo ValMod
MaxInit == 1     \* a variable's array starts with one of MaxInit + 1 contents

\* ------------------------------------------------------------ the graphs
\* kind of a node's operator:
\*   "var"    leaf created with an array in ctx.variables (its operator is
\*            a placeholder that has no compute)
\*   "val"    allocating operator, compute returns Ok(array)
\*   "del"    allocating operator, compute returns Err(Delegate { to })
\*   "bad"    allocating operator, compute returns Err(BadInput(msg))
\*   "inp"    in-place operator, compute_inplace mutates xs[0], returns Ok
\*   "inpbad" in-place operator, compute_inplace returns Err(BadInput(msg))
\* No in-place node takes one array twice among its inputs: compute_inplace
\* would then hold two mutable references to it.
Graphs ==
  << \* 1: a = zeros, b = ones, d = op(a, b) delegating to b
     [inputs |-> << <<>>, <<>>, <<1, 2>> >>,
      kind   |-> << "val", "val", "del" >>,
      to     |-> << 0, 0, 2 >>],
     \* 2: a = variable, b = ones, c = sub_inplace(a, b), e = op(c)
     [inputs |-> << <<>>, <<>>, <<1, 2>>, <<3>> >>,
      kind   |-> << "var", "val", "inp", "val" >>,
      to     |-> << 0, 0, 0, 0 >>],
     \* 3: a = op(), c = inplace(a), t = op(a, c): a is shared and consumed
     [inputs |-> << <<>>, <<1>>, <<1, 2>> >>,
      kind   |-> << "val", "inp", "val" >>,
      to     |-> << 0, 0, 0 >>],
     \* 4: as 3 with a = variable
     [inputs |-> << <<>>, <<1>>, <<1, 2>> >>,
      kind   |-> << "var", "inp", "val" >>,
      to     |-> << 0, 0, 0 >>],
     \* 5: owner diamond in the cache: a = op(), c = inplace(a),
     \*    d1 = identity(c), d2 = identity(c)
     [inputs |-> << <<>>, <<1>>, <<2>>, <<2>> >>,
      kind   |-> << "val", "inp", "del", "del" >>,
      to     |-> << 0, 0, 1, 1 >>],
     \* 6: owner diamond in the Variable Map: as 5 with a = variable
     [inputs |-> << <<>>, <<1>>, <<2>>, <<2>> >>,
      kind   |-> << "var", "inp", "del", "del" >>,
      to     |-> << 0, 0, 1, 1 >>],
     \* 7: a = failing op, b = op(a), c = op(b)
     [inputs |-> << <<>>, <<1>>, <<2>> >>,
      kind   |-> << "bad", "val", "val" >>,
      to     |-> << 0, 0, 0 >>],
     \* 8: a = op(), c = failing inplace(a), e = op(c)
     [inputs |-> << <<>>, <<1>>, <<2>> >>,
      kind   |-> << "val", "inpbad", "val" >>,
      to     |-> << 0, 0, 0 >>],
     \* 9: v = variable, d = identity(v), x = failing op, t = op(d, x)
     [inputs |-> << <<>>, <<1>>, <<>>, <<2, 3>> >>,
      kind   |-> << "var", "del", "bad", "val" >>,
      to     |-> << 0, 1, 0, 0 >>],
     \* 10: a = op(), d = identity(a), c = inplace(d), e = op(c, d)
     [inputs |-> << <<>>, <<1>>, <<2>>, <<3, 2>> >>,
      kind   |-> << "val", "del", "inp", "val" >>,
      to     |-> << 0, 1, 0, 0 >>],
     \* 11: v = variable, w = op(), s = op(v, w), d = identity(s)
     [inputs |-> << <<>>, <<>>, <<1, 2>>, <<3>> >>,
      kind   |-> << "var", "val", "val", "del" >>,
      to     |-> << 0, 0, 0, 1 >> ],
     \* 12: v = variable, c1 = inplace(v), c2 = inplace(c1), e = op(c2)
     [inputs |-> << <<>>, <<1>>, <<2>>, <<3>> >>,
      kind   |-> << "var", "inp", "inp", "val" >>,
      to     |-> << 0, 0, 0, 0 >>],
     \* 13: v = variable, d = identity(v), c = inplace(d)
     [inputs |-> << <<>>, <<1>>, <<2>> >>,
      kind   |-> << "var", "del", "inp" >>,
      to     |-> << 0, 1, 0 >>],
     \* 14: a = op(), d1 = identity(a), d2 = identity(d1), t = op(d2, a)
     [inputs |-> << <<>>, <<1>>, <<2>>, <<3, 1>> >>,
      kind   |-> << "val", "del", "del", "val" >>,
      to     |-> << 0, 1, 1, 0 >>],
     \* 15: a = op(), b = op(), c = inplace(a, b), d = identity(c)
     [inputs |-> << <<>>, <<>>, <<1, 2>>, <<3>> >>,
      kind   |-> << "val", "val", "inp", "del" >>,
      to     |-> << 0, 0, 0, 1 >> ],
     \* 16: a = op(), b = op(), d = op(a, b) delegating to b, c = inplace(d)
     [inputs |-> << <<>>, <<>>, <<1, 2>>, <<3>> >>,
      kind   |-> << "val", "val", "del", "inp" >>,
      to     |-> << 0, 0, 2, 0 >> ] >>

VARIABLES
  g,          \* index in Graphs of the graph of this behaviour
  vars,       \* ctx.variables : VariableMap, node -> array
  memo,       \* ctx.outputs : OutputMap, node -> OpComputeResult
  pc,         \* "idle", "walk", "build", "emit", "collect", "done", "aborted"
  entry,      \* entry point of the call: "eval" or "run", "none" before any
  tensors,    \* the request list xs of the call
  ti,         \* position of the running for-loop over tensors / owners
  stack,      \* call stack of perform_eval: frames [target, idx]
  owner2arr,  \* eval_tensors: owner -> [arr, cnt]
  owners,     \* eval_tensors: owner of each request, in request order
  results,    \* arrays eval_tensors returns / eval_tensors_ref borrows
  vars0,      \* ctx.variables when the call started
  memo0,      \* ctx.outputs when the call started
  clones,     \* owner -> NdArray::clone() calls made for it in this call
  removals,   \* node -> removals of its array from a store by eval_tensors
  opCalls,    \* node -> compute / compute_inplace calls in this cache lifetime
  ncalls,     \* entry point calls started so far
  abort,      \* the panic that ended the call, NoAbort if none
  last        \* the previous returned eval_tensors_ref call (SpecTwice only)

allvars == <<g, vars, memo, pc, entry, tensors, ti, stack, owner2arr, owners,
           results, vars0, memo0, clones, removals, opCalls, ncalls, abort, last>>

Nodes == 1 .. Len(Graphs[g].inputs)
Inputs(x) == Graphs[g].inputs[x]
Kind(x) == Graphs[g].kind[x]
To(x) == Graphs[g].to[x]

\* ------------------------------------------------------------ map helpers
EmptyMap == [x \in {} |-> 0]
Insert(m, k, v) == [x \in (DOMAIN m) \cup {k} |-> IF x = k THEN v ELSE m[x]]
Remove(m, k) == [x \in (DOMAIN m) \ {k} |-> m[x]]

NoArr == [buf |-> 0, val |-> 0]
OkOut(a) == [tag |-> "Ok", arr |-> a, to |-> 0, msg |-> 0]
DelegateOut(i) == [tag |-> "Delegate", arr |-> NoArr, to |-> i, msg |-> 0]
BadInputOut(m) == [tag |-> "BadInput", arr |-> NoArr, to |-> 0, msg |-> m]

\* a panic: its kind, the BadInput message it carries (0 if none) and, for an
\* unwrap() on None or an index past the end of inputs, the node at which
\* the lookup failed (0 otherwise)
Panic(k, m, x) == [kind |-> k, msg |-> m, at |-> x]
NoAbort == Panic("none", 0, 0)
\* the message an operator of node x puts in BadInput
Msg(x) == x

\* buffers held by the stores, the owner table and the results
UsedBufs ==
  {vars[x].buf : x \in DOMAIN vars}
    \cup {memo[x].arr.buf : x \in {y \in DOMAIN memo : memo[y].tag = "Ok"}}
    \cup {owner2arr[x].arr.buf : x \in DOMAIN owner2arr}
    \cup {results[i].buf : i \in DOMAIN results}
\* a fresh allocation: the least buffer identity not in use
NewBuf ==
  CHOOSE b \in 1 .. (Cardinality(UsedBufs) + 1) :
    /\ b \notin UsedBufs
    /\ \A c \in 1 .. (b - 1) : c \in UsedBufs

\* the content an operator of node x computes from input contents xs
OpValue(x, xs) ==
  (x + (IF Len(xs) >= 1 THEN 2 * xs[1] ELSE 0)
     + (IF Len(xs) >= 2 THEN 3 * xs[2] ELSE 0)) % ValMod

\* ------------------------------------------------------- chain resolution
\* seek_array: where the array of x lives in memo.  st = "ok": the array is
\* memo[at].arr; "unwrap": memo.get(x).unwrap() met None; "bad": the chain
\* reached BadInput(msg) and the function panics with that message; "index":
\* x.inputs[i] is indexed past the end of the inputs of x and panics.
RECURSIVE seek_array(_, _)
seek_array(mm, x) ==
  IF x \notin DOMAIN mm
  THEN [st |-> "unwrap", store |-> "memo", at |-> x, msg |-> 0]
  ELSE IF mm[x].tag = "Ok"
  THEN [st |-> "ok", store |-> "memo", at |-> x, msg |-> 0]
  ELSE IF mm[x].tag = "Delegate"
  THEN IF mm[x].to \in 1 .. Len(Inputs(x))
       THEN seek_array(mm, Inputs(x)[mm[x].to])
       ELSE [st |-> "index", store |-> "memo", at |-> x, msg |-> 0]
  ELSE [st |-> "bad", store |-> "memo", at |-> x, msg |-> mm[x].msg]

\* seek_array_owner: the node that owns the array of x; a node absent from
\* memo is returned as its own owner.
RECURSIVE seek_array_owner(_, _)
seek_array_owner(mm, x) ==
  IF x \in DOMAIN mm
  THEN IF mm[x].tag = "Ok"
       THEN [st |-> "ok", at |-> x, msg |-> 0]
       ELSE IF mm[x].tag = "Delegate"
       THEN IF mm[x].to \in 1 .. Len(Inputs(x))
            THEN seek_array_owner(mm, Inputs(x)[mm[x].to])
            ELSE [st |-> "index", at |-> x, msg |-> 0]
       ELSE [st |-> "bad", at |-> x, msg |-> mm[x].msg]
  ELSE [st |-> "ok", at |-> x, msg |-> 0]

\* ------------------------------------------------------------ perform_eval
\* "make xs": one input, from the variable set if it is there, else from memo
MakeX(vs, mm, x) ==
  IF x \in DOMAIN vs
  THEN [st |-> "ok", store |-> "vars", at |-> x, msg |-> 0]
  ELSE seek_array(mm, x)

MakeXs(vs, mm, t) == [i \in 1 .. Len(Inputs(t)) |-> MakeX(vs, mm, Inputs(t)[i])]

\* the array a resolved input refers to
ArrAt(vs, mm, loc) == IF loc.store = "vars" THEN vs[loc.at] ELSE mm[loc.at].arr

\* the panic of the first input that does not resolve, NoAbort if all do
XsAbort(xs) ==
  LET bad == {i \in DOMAIN xs : xs[i].st # "ok"} IN
  IF bad = {} THEN NoAbort
  ELSE LET i == CHOOSE j \in bad : \A k \in bad : j <= k IN
       IF xs[i].st = "bad"
       THEN Panic("BadInput", xs[i].msg, 0)
       ELSE IF xs[i].st = "index"
       THEN Panic("IndexOutOfBounds", 0, xs[i].at)
       ELSE Panic("UnwrapNone", 0, xs[i].at)

\* compute_inplace on xs: the array behind xs[0] is mutated where it lives
MutateFirst(vs, mm, t, xs) ==
  LET loc == xs[1]
      old == ArrAt(vs, mm, loc)
      new == [buf |-> old.buf,
              val |-> OpValue(t, [i \in DOMAIN xs |-> ArrAt(vs, mm, xs[i]).val])]
  IN IF loc.store = "vars"
     THEN [vars |-> [vs EXCEPT ![loc.at] = new], memo |-> mm]
     ELSE [vars |-> vs, memo |-> [mm EXCEPT ![loc.at] = OkOut(new)]]

\* MoveToTarget with the entry of inputs[0] copied, not moved
MoveToTarget_NoRemove(vs, mm, t) ==
  LET x == Inputs(t)[1] IN
  IF x \in DOMAIN mm
  THEN [vars |-> vs, memo |-> Insert(mm, t, mm[x]), abort |-> NoAbort]
  ELSE IF x \in DOMAIN vs
  THEN [vars |-> Insert(vs, t, vs[x]), memo |-> mm, abort |-> NoAbort]
  ELSE [vars |-> vs, memo |-> mm, abort |-> Panic("Unreachable", 0, 0)]

\* MoveToTarget with the look into the variable set left out
MoveToTarget_MemoOnly(vs, mm, t) ==
  LET x == Inputs(t)[1] IN
  IF x \in DOMAIN mm
  THEN [vars |-> vs, memo |-> Insert(Remove(mm, x), t, mm[x]), abort |-> NoAbort]
  ELSE [vars |-> vs, memo |-> mm, abort |-> Panic("Unreachable", 0, 0)]

\* "cache the output" of an in-place operator: the entry of inputs[0] moves
\* to target, from memo if it is there, else from the variable set
MoveToTarget(vs, mm, t) ==
  LET x == Inputs(t)[1] IN
  IF x \in DOMAIN mm
  THEN [vars |-> vs, memo |-> Insert(Remove(mm, x), t, mm[x]), abort |-> NoAbort]
  ELSE IF x \in DOMAIN vs
  THEN [vars |-> Insert(Remove(vs, x), t, vs[x]), memo |-> mm, abort |-> NoAbort]
  ELSE [vars |-> vs, memo |-> mm, abort |-> Panic("Unreachable", 0, 0)]

\* A variable's operator is a placeholder without a compute: perform_eval
\* reaches it only when the variable's array has left the Variable Map, and
\* the call panics.
PlaceholderCompute == Panic("VariableOp", 0, 0)

\* the value compute returns for a non-inplace operator
Compute(t, vs, mm, xs, fresh) ==
  IF Kind(t) = "val"
  THEN OkOut([buf |-> fresh,
              val |-> OpValue(t, [i \in DOMAIN xs |-> ArrAt(vs, mm, xs[i]).val])])
  ELSE IF Kind(t) = "del" THEN DelegateOut(To(t))
  ELSE BadInputOut(Msg(t))

\* perform_eval after the recursion over the inputs: make xs, compute the
\* output, cache it.  invoked: the operator of target was called.
ComputeAndCache(t, vs, mm, fresh) ==
  LET xs == MakeXs(vs, mm, t) IN
  IF XsAbort(xs) # NoAbort
  THEN [vars |-> vs, memo |-> mm, abort |-> XsAbort(xs), invoked |-> FALSE]
  ELSE IF Kind(t) = "var"
  THEN [vars |-> vs, memo |-> mm,
        abort |-> PlaceholderCompute, invoked |-> TRUE]
  ELSE IF Kind(t) = "inpbad"
  THEN [vars |-> vs, memo |-> mm,
        abort |-> Panic("BadInput", Msg(t), 0), invoked |-> TRUE]
  ELSE IF Kind(t) = "inp"
  THEN LET m == MutateFirst(vs, mm, t, xs)
           r == MoveToTarget(m.vars, m.memo, t)
       IN [vars |-> r.vars, memo |-> r.memo, abort |-> r.abort, invoked |-> TRUE]
  ELSE [vars |-> vs, memo |-> Insert(mm, t, Compute(t, vs, mm, xs, fresh)),
        abort |-> NoAbort, invoked |-> TRUE]

\* ------------------------------------------------------------ eval_tensors
Clone(a, fresh) == [buf |-> fresh, val |-> a.val]

\* BuildOwner with a cache owner's array cloned out of memo, not removed
BuildOwner_NoRemove(t, vs, mm, o2a, fresh) ==
  IF t \in DOMAIN vs
  THEN [abort |-> NoAbort, owner |-> t, memo |-> mm,
        owner2arr |-> IF t \in DOMAIN o2a
                      THEN [o2a EXCEPT ![t].cnt = @ + 1]
                      ELSE Insert(o2a, t, [arr |-> Clone(vs[t], fresh), cnt |-> 1]),
        cloned |-> t \notin DOMAIN o2a, removed |-> FALSE]
  ELSE LET o == seek_array_owner(mm, t) IN
       IF o.st = "bad"
       THEN [abort |-> Panic("BadInput", o.msg, 0), owner |-> o.at,
             memo |-> mm, owner2arr |-> o2a, cloned |-> FALSE, removed |-> FALSE]
       ELSE IF o.st = "index"
       THEN [abort |-> Panic("IndexOutOfBounds", 0, o.at), owner |-> o.at,
             memo |-> mm, owner2arr |-> o2a, cloned |-> FALSE, removed |-> FALSE]
       ELSE IF o.at \in DOMAIN o2a
       THEN [abort |-> NoAbort, owner |-> o.at, memo |-> mm,
             owner2arr |-> [o2a EXCEPT ![o.at].cnt = @ + 1],
             cloned |-> FALSE, removed |-> FALSE]
       ELSE IF o.at \notin DOMAIN mm
       THEN [abort |-> Panic("UnwrapNone", 0, o.at), owner |-> o.at,
             memo |-> mm, owner2arr |-> o2a, cloned |-> FALSE, removed |-> FALSE]
       ELSE [abort |-> NoAbort, owner |-> o.at, memo |-> mm,
             owner2arr |-> Insert(o2a, o.at, [arr |-> Clone(mm[o.at].arr, fresh), cnt |-> 1]),
             cloned |-> TRUE, removed |-> FALSE]

\* "build owner2arr and owners" for one request t
BuildOwner(t, vs, mm, o2a, fresh) ==
  IF t \in DOMAIN vs
  THEN \* case of "from variable set"
       [abort |-> NoAbort, owner |-> t, memo |-> mm,
        owner2arr |-> IF t \in DOMAIN o2a
                      THEN [o2a EXCEPT ![t].cnt = @ + 1]
                      ELSE Insert(o2a, t, [arr |-> Clone(vs[t], fresh), cnt |-> 1]),
        cloned |-> t \notin DOMAIN o2a, removed |-> FALSE]
  ELSE \* case of "from output memo"
       LET o == seek_array_owner(mm, t) IN
       IF o.st = "bad"
       THEN [abort |-> Panic("BadInput", o.msg, 0), owner |-> o.at,
             memo |-> mm, owner2arr |-> o2a, cloned |-> FALSE, removed |-> FALSE]
       ELSE IF o.st = "index"
       THEN [abort |-> Panic("IndexOutOfBounds", 0, o.at), owner |-> o.at,
             memo |-> mm, owner2arr |-> o2a, cloned |-> FALSE, removed |-> FALSE]
       ELSE IF o.at \in DOMAIN o2a
       THEN [abort |-> NoAbort, owner |-> o.at, memo |-> mm,
             owner2arr |-> [o2a EXCEPT ![o.at].cnt = @ + 1],
             cloned |-> FALSE, removed |-> FALSE]
       ELSE IF o.at \notin DOMAIN mm
       THEN \* memo.remove(owner).unwrap() on None
            [abort |-> Panic("UnwrapNone", 0, o.at), owner |-> o.at,
             memo |-> mm, owner2arr |-> o2a, cloned |-> FALSE, removed |-> FALSE]
       ELSE [abort |-> NoAbort, owner |-> o.at, memo |-> Remove(mm, o.at),
             owner2arr |-> Insert(o2a, o.at, [arr |-> mm[o.at].arr, cnt |-> 1]),
             cloned |-> FALSE, removed |-> TRUE]

\* EmitOwner with a clone handed to the last claimant too
EmitOwner_AlwaysClone(owner, o2a, fresh) ==
  IF o2a[owner].cnt >= 2
  THEN [owner2arr |-> [o2a EXCEPT ![owner].cnt = @ - 1],
        arr |-> Clone(o2a[owner].arr, fresh), cloned |-> TRUE]
  ELSE [owner2arr |-> Remove(o2a, owner),
        arr |-> Clone(o2a[owner].arr, fresh), cloned |-> TRUE]

\* "return arrays" for one owner: a clone while the shared count is 2 or
\* more, the array itself for the last claimant
EmitOwner(owner, o2a, fresh) ==
  IF o2a[owner].cnt >= 2
  THEN [owner2arr |-> [o2a EXCEPT ![owner].cnt = @ - 1],
        arr |-> Clone(o2a[owner].arr, fresh), cloned |-> TRUE]
  ELSE [owner2arr |-> Remove(o2a, owner), arr |-> o2a[owner].arr, cloned |-> FALSE]

\* -------------------------------------------------------- eval_tensors_ref
\* the reference pushed for one request t
CollectRef(t, vs, mm) ==
  IF t \in DOMAIN vs
  THEN [abort |-> NoAbort, arr |-> vs[t]]
  ELSE LET o == seek_array_owner(mm, t) IN
       IF o.st = "bad"
       THEN [abort |-> Panic("BadInput", o.msg, 0), arr |-> NoArr]
       ELSE IF o.st = "index"
       THEN [abort |-> Panic("IndexOutOfBounds", 0, o.at), arr |-> NoArr]
       ELSE IF o.at \notin DOMAIN mm
       THEN [abort |-> Panic("UnwrapNone", 0, o.at), arr |-> NoArr]
       ELSE [abort |-> NoAbort, arr |-> mm[o.at].arr]

\* ------------------------------------------------------------------- Init
VarNodes(gi) == {x \in 1 .. Len(Graphs[gi].kind) : Graphs[gi].kind[x] = "var"}
\* the array ag::variable(arr, ctx) stored for node x
InitArr(x, v) == [buf |-> x, val |-> (x + 2 + v) % ValMod]
ZeroCount == [x \in Nodes |-> 0]
NoLast == [tensors |-> <<>>, results |-> <<>>, vars |-> EmptyMap, memo |-> EmptyMap]
Requests == UNION {[1 .. k -> Nodes] : k \in 1 .. MaxReq}

Init ==
  /\ g \in 1 .. Len(Graphs)
  /\ \E v \in 0 .. MaxInit : vars = [x \in VarNodes(g) |-> InitArr(x, v)]
  /\ memo = EmptyMap
  /\ pc = "idle"
  /\ entry = "none"
  /\ tensors = <<>>
  /\ ti = 1
  /\ stack = <<>>
  /\ owner2arr = EmptyMap
  /\ owners = <<>>
  /\ results = <<>>
  /\ vars0 = vars
  /\ memo0 = memo
  /\ clones = ZeroCount
  /\ removals = ZeroCount
  /\ opCalls = ZeroCount
  /\ ncalls = 0
  /\ abort = NoAbort
  /\ last = NoLast

\* ---------------------------------------------------------------- actions
\* eval(xs, ctx) or run(xs, ctx) is called
Call(e, xs) ==
  /\ pc \in {"idle", "done"}
  /\ ncalls < MaxCalls
  /\ pc' = "walk"
  /\ entry' = e
  /\ tensors' = xs
  /\ ti' = 1
  /\ stack' = <<>>
  /\ owner2arr' = EmptyMap
  /\ owners' = <<>>
  /\ results' = <<>>
  /\ vars0' = vars
  /\ memo0' = memo
  /\ clones' = ZeroCount
  /\ removals' = ZeroCount
  /\ ncalls' = ncalls + 1
  /\ UNCHANGED <<g, vars, memo, opCalls, abort, last>>

\* "run graph": the for-loop calls perform_eval on the next request
WalkNext ==
  /\ pc = "walk"
  /\ stack = <<>>
  /\ ti <= Len(tensors)
  /\ stack' = <<[target |-> tensors[ti], idx |-> 0]>>
  /\ ti' = ti + 1
  /\ UNCHANGED <<g, vars, memo, pc, entry, tensors, owner2arr, owners, results,
                 vars0, memo0, clones, removals, opCalls, ncalls, abort, last>>

\* the walk is over: eval_tensors starts building owner2arr,
\* eval_tensors_ref starts collecting references
WalkDone ==
  /\ pc = "walk"
  /\ stack = <<>>
  /\ ti > Len(tensors)
  /\ pc' = IF entry = "run" THEN "collect" ELSE "build"
  /\ ti' = 1
  /\ UNCHANGED <<g, vars, memo, entry, tensors, stack, owner2arr, owners, results,
                 vars0, memo0, clones, removals, opCalls, ncalls, abort, last>>

Top == stack[Len(stack)]
Pop == SubSeq(stack, 1, Len(stack) - 1)

\* Resolved with the look into memo left out
Resolved_VarsOnly(t, vs, mm) == t \in DOMAIN vs

\* Resolved with the look into vars left out
Resolved_MemoOnly(t, vs, mm) == t \in DOMAIN mm

\* the guard of perform_eval: target is a key of vars or of memo
Resolved(t, vs, mm) == t \in DOMAIN vs \/ t \in DOMAIN mm

\* perform_eval is entered: return at once if target is resolved
PerformEvalEnter ==
  /\ pc = "walk"
  /\ stack # <<>>
  /\ Top.idx = 0
  /\ stack' = IF Resolved(Top.target, vars, memo)
              THEN Pop
              ELSE [stack EXCEPT ![Len(stack)].idx = 1]
  /\ UNCHANGED <<g, vars, memo, pc, entry, tensors, ti, owner2arr, owners, results,
                 vars0, memo0, clones, removals, opCalls, ncalls, abort, last>>

\* PerformEvalRecurse with the loop over the inputs never advancing
PerformEvalRecurse_NoAdvance ==
  /\ pc = "walk"
  /\ stack # <<>>
  /\ Top.idx >= 1
  /\ Top.idx <= Len(Inputs(Top.target))
  /\ stack' = Append(stack, [target |-> Inputs(Top.target)[Top.idx], idx |-> 0])
  /\ UNCHANGED <<g, vars, memo, pc, entry, tensors, ti, owner2arr, owners, results,
                 vars0, memo0, clones, removals, opCalls, ncalls, abort, last>>

\* perform_eval recurses into the next input, left to right
PerformEvalRecurse ==
  /\ pc = "walk"
  /\ stack # <<>>
  /\ Top.idx >= 1
  /\ Top.idx <= Len(Inputs(Top.target))
  /\ stack' = Append([stack EXCEPT ![Len(stack)].idx = @ + 1],
                     [target |-> Inputs(Top.target)[Top.idx], idx |-> 0])
  /\ UNCHANGED <<g, vars, memo, pc, entry, tensors, ti, owner2arr, owners, results,
                 vars0, memo0, clones, removals, opCalls, ncalls, abort, last>>

Bump(cnt, x) == [cnt EXCEPT ![x] = IF @ < CountCap THEN @ + 1 ELSE @]

\* perform_eval makes xs, computes the output and caches it, or panics
PerformEvalCompute ==
  /\ pc = "walk"
  /\ stack # <<>>
  /\ Top.idx > Len(Inputs(Top.target))
  /\ LET r == ComputeAndCache(Top.target, vars, memo, NewBuf) IN
     /\ vars' = r.vars
     /\ memo' = r.memo
     /\ opCalls' = IF r.invoked THEN Bump(opCalls, Top.target) ELSE opCalls
     /\ abort' = r.abort
     /\ pc' = IF r.abort = NoAbort THEN "walk" ELSE "aborted"
     /\ stack' = IF r.abort = NoAbort THEN Pop ELSE stack
  /\ UNCHANGED <<g, entry, tensors, ti, owner2arr, owners, results,
                 vars0, memo0, clones, removals, ncalls, last>>

\* eval_tensors resolves the owner of the next request
BuildStep ==
  /\ pc = "build"
  /\ LET t == tensors[ti]
         r == BuildOwner(t, vars, memo, owner2arr, NewBuf)
     IN /\ abort' = r.abort
        /\ memo' = r.memo
        /\ owner2arr' = r.owner2arr
        /\ owners' = IF r.abort = NoAbort THEN Append(owners, r.owner) ELSE owners
        /\ clones' = IF r.cloned THEN [clones EXCEPT ![r.owner] = @ + 1] ELSE clones
        /\ removals' = IF r.removed THEN [removals EXCEPT ![r.owner] = @ + 1]
                       ELSE removals
        /\ pc' = IF r.abort # NoAbort THEN "aborted"
                 ELSE IF ti = Len(tensors) THEN "emit" ELSE "build"
        /\ ti' = IF r.abort # NoAbort THEN ti
                 ELSE IF ti = Len(tensors) THEN 1 ELSE ti + 1
  /\ UNCHANGED <<g, vars, entry, tensors, stack, results, vars0, memo0,
                 opCalls, ncalls, last>>

\* eval_tensors returns the array of the next owner
EmitStep ==
  /\ pc = "emit"
  /\ LET r == EmitOwner(owners[ti], owner2arr, NewBuf) IN
     /\ owner2arr' = r.owner2arr
     /\ results' = Append(results, r.arr)
     /\ clones' = IF r.cloned THEN [clones EXCEPT ![owners[ti]] = @ + 1] ELSE clones
  /\ pc' = IF ti = Len(owners) THEN "ret" ELSE "emit"
  /\ ti' = ti + 1
  /\ UNCHANGED <<g, vars, memo, entry, tensors, stack, owners, vars0, memo0,
                 removals, opCalls, ncalls, abort, last>>

\* eval_tensors_ref pushes the reference of the next request
CollectStep ==
  /\ pc = "collect"
  /\ LET r == CollectRef(tensors[ti], vars, memo) IN
     /\ abort' = r.abort
     /\ results' = IF r.abort = NoAbort THEN Append(results, r.arr) ELSE results
     /\ pc' = IF r.abort # NoAbort THEN "aborted"
              ELSE IF ti = Len(tensors) THEN "ret" ELSE "collect"
  /\ ti' = ti + 1
  /\ UNCHANGED <<g, vars, memo, entry, tensors, stack, owner2arr, owners, vars0,
                 memo0, clones, removals, opCalls, ncalls, last>>

\* ReturnTo with ctx.outputs.clear() left out
ReturnTo_NoClear(keep) ==
  /\ pc = "ret"
  /\ pc' = "done"
  /\ memo' = memo
  /\ opCalls' = IF entry = "eval" THEN ZeroCount ELSE opCalls
  /\ last' = IF keep
             THEN [tensors |-> tensors, results |-> results, vars |-> vars, memo |-> memo]
             ELSE NoLast
  /\ UNCHANGED <<g, vars, entry, tensors, ti, stack, owner2arr, owners, results,
                 vars0, memo0, clones, removals, ncalls, abort>>

\* ReturnTo with eval clearing ctx.variables along with ctx.outputs
ReturnTo_ClearVariables(keep) ==
  /\ pc = "ret"
  /\ pc' = "done"
  /\ memo' = IF entry = "eval" THEN EmptyMap ELSE memo
  /\ vars' = IF entry = "eval" THEN EmptyMap ELSE vars
  /\ opCalls' = IF entry = "eval" THEN ZeroCount ELSE opCalls
  /\ last' = IF keep
             THEN [tensors |-> tensors, results |-> results, vars |-> vars, memo |-> memo]
             ELSE NoLast
  /\ UNCHANGED <<g, entry, tensors, ti, stack, owner2arr, owners, results,
                 vars0, memo0, clones, removals, ncalls, abort>>

\* the entry point returns; eval clears ctx.outputs first
ReturnTo(keep) ==
  /\ pc = "ret"
  /\ pc' = "done"
  /\ memo' = IF entry = "eval" THEN EmptyMap ELSE memo
  /\ opCalls' = IF entry = "eval" THEN ZeroCount ELSE opCalls
  /\ last' = IF keep
             THEN [tensors |-> tensors, results |-> results, vars |-> vars, memo |-> memo]
             ELSE NoLast
  /\ UNCHANGED <<g, vars, entry, tensors, ti, stack, owner2arr, owners, results,
                 vars0, memo0, clones, removals, ncalls, abort>>

Return == ReturnTo(FALSE)

Next ==
  \/ \E e \in {"eval", "run"} : \E xs \in Requests : Call(e, xs)
  \/ WalkNext
  \/ WalkDone
  \/ PerformEvalEnter
  \/ PerformEvalRecurse
  \/ PerformEvalCompute
  \/ BuildStep
  \/ EmitStep
  \/ CollectStep
  \/ Return

Spec == Init /\ [][Next]_allvars

\* a step of the call under way.  The evaluator is single-threaded and
\* synchronous, without suspension points: a call that can take its next
\* step takes it.
Proceed ==
  \/ WalkNext
  \/ WalkDone
  \/ PerformEvalEnter
  \/ PerformEvalRecurse
  \/ PerformEvalCompute
  \/ BuildStep
  \/ EmitStep
  \/ CollectStep
  \/ Return

SpecFair == Spec /\ WF_allvars(Proceed)

\* eval_tensors_ref called again and again with the same targets on the same
\* stores; last remembers what the previous call returned and left behind
CallAgain(xs) ==
  /\ last = NoLast \/ xs = last.tensors
  /\ Call("run", xs)

ReturnKeep == ReturnTo(TRUE)

NextTwice ==
  \/ \E xs \in Requests : CallAgain(xs)
  \/ WalkNext
  \/ WalkDone
  \/ PerformEvalEnter
  \/ PerformEvalRecurse
  \/ PerformEvalCompute
  \/ CollectStep
  \/ ReturnKeep

SpecTwice == Init /\ [][NextTwice]_allvars

\* ------------------------------------------------------------------ claims
\* The value the graph gives node x in the call under way: the array stored
\* for x when the call started if there is one, else what the operator of x
\* makes of the values of its inputs.  NoVal: x has no value (a failing
\* operator, or a variable whose array is gone).
NoVal == 0 - 1
RECURSIVE Val(_)
Val(x) ==
  IF x \in DOMAIN vars0 THEN vars0[x].val
  ELSE IF x \in DOMAIN memo0 /\ memo0[x].tag = "Ok" THEN memo0[x].arr.val
  ELSE IF x \in DOMAIN memo0 /\ memo0[x].tag = "Delegate"
  THEN IF memo0[x].to \in 1 .. Len(Inputs(x))
       THEN Val(Inputs(x)[memo0[x].to])
       ELSE NoVal
  ELSE IF x \in DOMAIN memo0 THEN NoVal
  ELSE IF Kind(x) = "del" THEN Val(Inputs(x)[To(x)])
  ELSE IF Kind(x) \in {"val", "inp"}
  THEN LET xs == [i \in 1 .. Len(Inputs(x)) |-> Val(Inputs(x)[i])] IN
       IF \E i \in DOMAIN xs : xs[i] = NoVal THEN NoVal ELSE OpValue(x, xs)
  ELSE NoVal

\* C1: whenever eval(xs, ctx) returns, the result has exactly len(xs) arrays
\* and result[i] is the value of target xs[i].
C1_EvalResultIsValueOfTargets ==
  (pc = "done" /\ entry = "eval") =>
    /\ Len(results) = Len(tensors)
    /\ \A i \in 1 .. Len(tensors) : results[i].val = Val(tensors[i])

\* C2: within one lifetime of the Output Cache the operator of each node is
\* invoked at most once, also when in-place operators consume a shared
\* input, and perform_eval never gets to the operator of a node that is a
\* key of the Variable Map.
C2_EachOperatorInvokedAtMostOnce ==
  /\ \A x \in Nodes : opCalls[x] <= 1
  /\ \A k \in 1 .. Len(stack) :
       stack[k].idx >= 1 => stack[k].target \notin DOMAIN vars

\* C3: in-place transfer.  For a = variable and c = in_place_op(a, ..),
\* after run([c]) or eval([c]) the Variable Map has no entry under a, it has
\* an entry under c that holds a's buffer with the content the operator
\* wrote, and the Output Cache holds no entry for c.
C3_Case(c) ==
  /\ tensors = <<c>>
  /\ Kind(c) = "inp"
  /\ Kind(Inputs(c)[1]) = "var"
  /\ Inputs(c)[1] \in DOMAIN vars0
  /\ c \notin DOMAIN vars0

C3_InPlaceTransfer ==
  \A c \in Nodes :
    (pc = "done" /\ C3_Case(c)) =>
      LET a == Inputs(c)[1] IN
      /\ a \notin DOMAIN vars
      /\ c \in DOMAIN vars
      /\ vars[c].buf = vars0[a].buf
      /\ vars[c].val = OpValue(c, [i \in 1 .. Len(Inputs(c)) |-> Val(Inputs(c)[i])])
      /\ c \notin DOMAIN memo

\* run([c]) has returned and the variable's buffer, with new content, is
\* stored under c
C3_Witness ==
  \E c \in Nodes :
    /\ pc = "done" /\ entry = "run" /\ C3_Case(c)
    /\ c \in DOMAIN vars
    /\ vars[c].buf = vars0[Inputs(c)[1]].buf
    /\ vars[c].val # vars0[Inputs(c)[1]].val

\* buffers of the arrays held in the Variable Map and in the Output Cache
StoreBufs ==
  {vars[x].buf : x \in DOMAIN vars}
    \cup {memo[x].arr.buf : x \in {y \in DOMAIN memo : memo[y].tag = "Ok"}}

\* the results of an owning call are pairwise distinct buffers, none of them
\* a buffer still held in a store
ResultsIndependent ==
  /\ \A i, j \in 1 .. Len(results) : i # j => results[i].buf # results[j].buf
  /\ \A i \in 1 .. Len(results) : results[i].buf \notin StoreBufs

\* C4: requesting the same node N >= 1 times in one eval call returns N
\* arrays that all equal the node's value and are pairwise independent
\* buffers, none aliasing an array still held in the Variable Map or cache.
C4_SharedRequestsEqualAndIndependent ==
  (pc \in {"ret", "done"} /\ entry = "eval") =>
    /\ Len(results) = Len(tensors)
    /\ \A i \in 1 .. Len(tensors) : results[i].val = Val(tensors[i])
    /\ ResultsIndependent

\* requests of the call that resolved to owner o
Shared(o) == Cardinality({i \in 1 .. Len(owners) : owners[i] = o})
Owners == {owners[i] : i \in 1 .. Len(owners)}
OwningCallOver == pc \in {"ret", "done"} /\ entry = "eval"

\* C5 as stated: in one eval call an owner requested N times is cloned at
\* most N-1 times (so never when requested once), be it stored in the
\* Output Cache or in the Variable Map.
C5_AtMostNMinusOneClones ==
  OwningCallOver => \A o \in Owners : clones[o] <= Shared(o) - 1

\* C5 amended: an owner stored in the Output Cache and requested N times is
\* cloned N-1 times, so never when requested once; an owner stored in the
\* Variable Map is cloned N times, the map keeping its array.
C5_ClonesPerOwner ==
  OwningCallOver =>
    \A o \in Owners :
      clones[o] = IF o \in DOMAIN vars THEN Shared(o) ELSE Shared(o) - 1

\* an eval call returned two arrays of one cache owner and cloned once
C5_Witness ==
  /\ pc = "done" /\ entry = "eval"
  /\ \E o \in Owners : o \notin DOMAIN vars /\ Shared(o) = 2 /\ clones[o] = 1

RECURSIVE SumOver(_, _)
SumOver(f, S) ==
  IF S = {} THEN 0
  ELSE LET x == CHOOSE y \in S : TRUE IN f[x] + SumOver(f, S \ {x})

\* the node a "del" node x delegates to
DelegateOf(x) == Inputs(x)[To(x)]

\* two different requested outputs delegate to one in-place node
C6_Case ==
  /\ entry = "eval"
  /\ Len(tensors) = 2
  /\ tensors[1] # tensors[2]
  /\ Kind(tensors[1]) = "del" /\ Kind(tensors[2]) = "del"
  /\ DelegateOf(tensors[1]) = DelegateOf(tensors[2])
  /\ Kind(DelegateOf(tensors[1])) = "inp"

\* C6: owner diamond.  When two requested outputs delegate through different
\* paths to the buffer an in-place operator produced, eval returns two equal
\* arrays and performs exactly one clone, whether the mutated buffer ended up
\* in the Output Cache or in the Variable Map.
C6_OwnerDiamond ==
  C6_Case =>
    /\ pc # "aborted"
    /\ pc \in {"ret", "done"} =>
         /\ Len(results) = 2
         /\ results[1].val = results[2].val
         /\ SumOver(clones, Nodes) = 1

\* C7 as stated: eval_tensors_ref removes no entry from the Output Cache or
\* the Variable Map, and a second call with the same targets on the same
\* stores returns the same results and leaves both stores unchanged.
C7_RefRemovesNothingAndIsIdempotent ==
  entry = "run" =>
    /\ DOMAIN vars0 \subseteq DOMAIN vars
    /\ DOMAIN memo0 \subseteq DOMAIN memo
    /\ (pc = "ret" /\ last # NoLast) =>
         /\ results = last.results
         /\ vars = vars0 /\ memo = memo0

\* x is inputs[0] of an in-place operator that was computed
ConsumedInPlace(x) ==
  \E c \in Nodes : Kind(c) = "inp" /\ Inputs(c)[1] = x /\ opCalls[c] >= 1

\* C7 amended: the only entries eval_tensors_ref removes are those of
\* inputs[0] of the in-place operators its walk computes (each moved under
\* the operator's identity); a second call with the same targets on the
\* same stores returns the same results and leaves both stores unchanged.
C7_RefRemovesOnlyConsumedAndIsIdempotent ==
  entry = "run" =>
    /\ \A x \in (DOMAIN vars0 \ DOMAIN vars) \cup (DOMAIN memo0 \ DOMAIN memo) :
         ConsumedInPlace(x)
    /\ (pc = "ret" /\ last # NoLast) =>
         /\ tensors = last.tensors
         /\ results = last.results
         /\ vars = vars0 /\ memo = memo0
         /\ vars = last.vars /\ memo = last.memo

\* a second eval_tensors_ref call with the same targets is about to return,
\* on stores in which the first call moved a variable under an in-place node
C7_Witness ==
  /\ entry = "run" /\ pc = "ret" /\ last # NoLast
  /\ tensors = last.tensors /\ results = last.results
  /\ \E c \in DOMAIN vars : Kind(c) = "inp"

\* t is x or depends on x through inputs
RECURSIVE DependsOn(_, _)
DependsOn(t, x) ==
  t = x \/ \E i \in 1 .. Len(Inputs(t)) : DependsOn(Inputs(t)[i], x)

\* the operator of x was called and returned BadInput(Msg(x))
ReturnedBadInput(x) == Kind(x) \in {"bad", "inpbad"} /\ opCalls[x] >= 1

\* C8: fatal propagation.  If the operator of a node returned Bad Input, a
\* call with a target that is that node or depends on it returns no result
\* list: it aborts, and the abort carries the operator's message.
C8_FatalPropagation ==
  \A x \in Nodes :
    (ReturnedBadInput(x) /\ \E i \in 1 .. Len(tensors) : DependsOn(tensors[i], x)) =>
      /\ pc \notin {"ret", "done"}
      /\ pc = "aborted" => (abort.kind = "BadInput" /\ abort.msg = Msg(x))

\* C9 as stated: in eval_tensors the first request that maps to an owner
\* removes the owner's array from its store, Variable Map or Output Cache,
\* later requests only count; after eval each requested owner has been
\* removed from its store exactly once and is no longer there.
C9_EveryOwnerRemovedOnce ==
  (pc \in {"ret", "done"} /\ entry = "eval") =>
    \A o \in Owners :
      /\ removals[o] = 1
      /\ o \notin DOMAIN vars
      /\ o \notin DOMAIN memo

\* C9 amended: the first request that maps to an owner held in the Output
\* Cache removes its array from the cache, later requests for it only count;
\* after eval each such owner has been removed exactly once and is no longer
\* in the cache.  An owner that is a key of the Variable Map is cloned, never
\* removed: it is still in the Variable Map.
C9_CacheOwnersRemovedOnce ==
  (pc \in {"build", "emit", "ret", "done"} /\ entry = "eval") =>
    \A o \in Owners :
      /\ removals[o] = IF o \in DOMAIN vars THEN 0 ELSE 1
      /\ o \notin DOMAIN memo
      /\ pc = "build" => owner2arr[o].cnt = Shared(o)

\* eval_tensors took a cache owner that two requests share out of the cache
\* once
C9_Witness ==
  /\ pc = "ret" /\ entry = "eval"
  /\ \E o \in Owners : o \notin DOMAIN vars /\ Shared(o) = 2 /\ removals[o] = 1

\* C10: resolution through a delegate chain that ends at a node stored in
\* the Variable Map yields that variable's array, in the input assembly of
\* perform_eval and for a requested target of eval_tensors or
\* eval_tensors_ref, wherever the target stands in the request list.
C10_DelegateToVariableResolves ==
  /\ abort.kind = "UnwrapNone" => abort.at \notin DOMAIN vars
  /\ pc = "ret" =>
       \A i \in 1 .. Len(tensors) :
         LET t == tensors[i] IN
         (t \in DOMAIN memo /\ memo[t].tag = "Delegate"
            /\ seek_array_owner(memo, t).at \in DOMAIN vars)
           => results[i].val = vars[seek_array_owner(memo, t).at].val

\* C11: after every eval call that returns, the Output Cache is empty,
\* whatever it held when the call started (entries of an earlier run too).
C11_EvalLeavesCacheEmpty ==
  (pc = "done" /\ entry = "eval") => memo = EmptyMap

\* an eval call returned that had started on a cache an earlier run filled
\* and that left entries in the cache when eval_tensors was through
C11_Witness ==
  /\ pc = "done" /\ entry = "eval"
  /\ memo0 # EmptyMap
  /\ \E x \in DOMAIN memo0 : x \notin Owners
  /\ memo = EmptyMap

\* the array of x can be had from the stores vs and mm: x is a key of the
\* Variable Map, or its delegate chain in the Output Cache ends at a cached
\* Value or at a key of the Variable Map
RECURSIVE Obtainable(_, _, _)
Obtainable(vs, mm, x) ==
  IF x \in DOMAIN vs THEN TRUE
  ELSE IF x \notin DOMAIN mm THEN FALSE
  ELSE IF mm[x].tag = "Ok" THEN TRUE
  ELSE IF mm[x].tag = "Delegate"
  THEN mm[x].to \in 1 .. Len(Inputs(x))
         /\ Obtainable(vs, mm, Inputs(x)[mm[x].to])
  ELSE FALSE

\* no operator of the graph returns BadInput
AllSucceed == \A x \in Nodes : Kind(x) \notin {"bad", "inpbad"}

\* the for-loop over perform_eval has run over every request and the entry
\* point has not yet touched the stores
WalkOver == pc = "collect" \/ (pc = "build" /\ ti = 1)

\* C12: after the Graph Walker has run over all requested nodes of a graph
\* whose operators all succeed, every requested node is resolvable to an
\* array, for every request list and order, also when the list holds an
\* in-place node and the node it consumed as inputs[0].
C12_RequestsResolvableAfterWalk ==
  (AllSucceed /\ WalkOver) =>
    \A i \in 1 .. Len(tensors) : Obtainable(vars, memo, tensors[i])

\* the innermost perform_eval is through with the recursion over its inputs
\* and is about to make xs and call the operator of its target
AtInvocation ==
  pc = "walk" /\ stack # <<>> /\ Top.idx > Len(Inputs(Top.target))

\* C13: post-order resolution.  perform_eval resolves the inputs of target
\* left to right before it invokes target's operator (each nested call is
\* the one on the input just before the caller's position), and when the
\* operator is invoked every input of target has an array obtainable from
\* the Variable Map or the Output Cache, also when an earlier-listed input
\* was consumed by an in-place operator that is a later-listed input.
C13_InputsObtainableAtInvocation ==
  /\ \A k \in 1 .. (Len(stack) - 1) :
       /\ stack[k].idx >= 2
       /\ stack[k + 1].target = Inputs(stack[k].target)[stack[k].idx - 1]
  /\ (AllSucceed /\ AtInvocation) =>
       \A i \in 1 .. Len(Inputs(Top.target)) :
         Obtainable(vars, memo, Inputs(Top.target)[i])

\* the step is a perform_eval that ran the in-place operator of its target
\* to the end: compute_inplace returned Ok and the output was cached
InPlaceStep ==
  /\ AtInvocation
  /\ Kind(Top.target) = "inp"
  /\ pc' = "walk"
  /\ stack' = Pop

\* C14: after a successful in-place operator on target, resolving target
\* (Variable Map lookup, else chain resolution in the cache) yields exactly
\* the buffer the operator mutated, with the content it wrote: when
\* inputs[0] held a Value in the cache, when it was a Variable Map entry and
\* when it was held in the cache as a Delegate entry.
C14_TargetOwnsMutatedBuffer ==
  [][InPlaceStep =>
       LET t == Top.target
           src == MakeX(vars, memo, Inputs(t)[1])
           dst == MakeX(vars', memo', t)
       IN /\ dst.st = "ok"
          /\ ArrAt(vars', memo', dst).buf = ArrAt(vars, memo, src).buf
          /\ ArrAt(vars', memo', dst).val =
               OpValue(t, [i \in 1 .. Len(Inputs(t)) |->
                             ArrAt(vars, memo, MakeX(vars, memo, Inputs(t)[i])).val])
    ]_allvars

\* the innermost perform_eval is about to call compute_inplace on inputs
\* that all resolved
InPlaceReady ==
  /\ AtInvocation
  /\ Kind(Top.target) \in {"inp", "inpbad"}
  /\ XsAbort(MakeXs(vars, memo, Top.target)) = NoAbort

\* C15: the in-place migration never reaches unreachable!(): whenever
\* perform_eval gets to compute_inplace with its inputs resolved (the
\* operator does not touch the keys of the stores), inputs[0] is a key of
\* exactly one of the Output Cache and the Variable Map, whatever calls were
\* made before.
C15_MigrationNeverUnreachable ==
  /\ abort.kind # "Unreachable"
  /\ InPlaceReady =>
       LET x == Inputs(Top.target)[1] IN
       (x \in DOMAIN memo) # (x \in DOMAIN vars)

\* in a second call on the context an in-place operator ran and its output
\* was migrated under its own identity
C15_Witness ==
  /\ ncalls = 2
  /\ abort = NoAbort
  /\ \E c \in Nodes :
       /\ Kind(c) = "inp"
       /\ opCalls[c] >= 1
       /\ c \notin (DOMAIN vars0 \cup DOMAIN memo0)
       /\ c \in (DOMAIN vars \cup DOMAIN memo)

\* C16: store disjointness.  In every reachable state of a session started
\* with disjoint stores no node is a key of both the Variable Map and the
\* Output Cache; the target whose output perform_eval is about to compute
\* and cache, or to migrate in place, is a key of neither store, so no key
\* of the Variable Map is computed into the cache and a migration inserts
\* into neither store a key present in the other.
C16_StoresDisjoint ==
  /\ DOMAIN vars \cap DOMAIN memo = {}
  /\ AtInvocation => Top.target \notin (DOMAIN vars \cup DOMAIN memo)

\* after the walk both stores hold entries: the Variable Map an in-place
\* node that took over a variable's array, the cache a node computed from it
C16_Witness ==
  /\ WalkOver
  /\ \E c \in DOMAIN vars :
       /\ Kind(c) = "inp"
       /\ \E e \in DOMAIN memo : \E i \in 1 .. Len(Inputs(e)) : Inputs(e)[i] = c

\* no perform_eval call is under way
BetweenCalls == stack = <<>> /\ pc # "aborted"

\* C17: delegate-chain invariant.  In every state between perform_eval
\* calls, following Delegate(i) entries from a node cached in the Output
\* Cache, moving to inputs[i] each step, ends at a node that is absent from
\* the cache or cached with a Value; also for entries an in-place migration
\* re-inserted under another identity.
C17_DelegateChainsEnd ==
  BetweenCalls =>
    \A x \in DOMAIN memo :
      memo[x].tag = "Delegate" => seek_array_owner(memo, x).st = "ok"

\* the graph has no in-place operator
NoInPlace == \A x \in Nodes : Kind(x) \notin {"inp", "inpbad"}

\* C18: the Variable Map persists.  An eval or run over a graph without
\* in-place operators leaves the Variable Map as it was when the call
\* started, same keys and same arrays, at every step of the call and after
\* it, also when a variable node is itself a requested target.
C18_VariableMapPersists ==
  NoInPlace =>
    /\ vars = vars0
    /\ DOMAIN vars = VarNodes(g)
    /\ \A x \in DOMAIN vars : vars[x].buf = x

\* an eval over a graph without in-place operators returned a copy of a
\* requested variable, in a buffer of its own
C18_Witness ==
  /\ pc = "done" /\ entry = "eval"
  /\ NoInPlace
  /\ \E i \in 1 .. Len(tensors) :
       /\ tensors[i] \in DOMAIN vars
       /\ results[i].val = vars[tensors[i]].val
       /\ results[i].buf # vars[tensors[i]].buf

\* recursive calls seek_array_owner makes to follow the chain of x in mm
RECURSIVE ChainSteps(_, _)
ChainSteps(mm, x) ==
  IF x \in DOMAIN mm /\ mm[x].tag = "Delegate" /\ mm[x].to \in 1 .. Len(Inputs(x))
  THEN 1 + ChainSteps(mm, Inputs(x)[mm[x].to])
  ELSE 0

\* a call of eval or run is under way
Running == pc \in {"walk", "build", "emit", "collect", "ret"}
\* the call has returned or has panicked
Over == pc \in {"done", "aborted"}

\* steps perform_eval(t) takes at most: the guard, for each input the
\* recursive call and what it takes, then make xs / compute / cache;
\* CostFrom(t, k): the same for a call that stands at input k of t
RECURSIVE Cost(_), CostFrom(_, _)
CostFrom(t, k) ==
  IF k > Len(Inputs(t)) THEN 1
  ELSE 1 + Cost(Inputs(t)[k]) + CostFrom(t, k + 1)
Cost(t) == 1 + CostFrom(t, 1)

FrameCost(f) == IF f.idx = 0 THEN Cost(f.target) ELSE CostFrom(f.target, f.idx)

\* a bound on the steps the call under way has yet to take
StepsLeft ==
  IF pc = "walk"
  THEN SumOver([k \in 1 .. Len(stack) |-> FrameCost(stack[k])], 1 .. Len(stack))
         + SumOver([i \in ti .. Len(tensors) |-> 1 + Cost(tensors[i])],
                   ti .. Len(tensors))
         + 2 * Len(tensors) + 2
  ELSE IF pc = "build" THEN (Len(tensors) + 1 - ti) + Len(tensors) + 1
  ELSE IF pc = "emit" THEN (Len(owners) + 1 - ti) + 1
  ELSE IF pc = "collect" THEN (Len(tensors) + 1 - ti) + 1
  ELSE IF pc = "ret" THEN 1
  ELSE 0

\* C19: termination.  A call of eval or run that is under way can always
\* take a step, and every step it takes lowers StepsLeft, a natural number
\* that is 0 only when the call has returned or aborted: the call returns
\* or aborts after finitely many steps.  The recursion of perform_eval is
\* never deeper than the graph has nodes, and seek_array / seek_array_owner
\* follow a delegate chain for fewer steps than that.
C19_CallsTerminate ==
  /\ [](Running => ENABLED <<Proceed>>_allvars)
  /\ [](StepsLeft \in Nat /\ (StepsLeft = 0 <=> ~Running))
  /\ [][Running => StepsLeft' < StepsLeft]_allvars
  /\ [](/\ Len(stack) <= Cardinality(Nodes)
        /\ \A x \in Nodes : ChainSteps(memo, x) < Cardinality(Nodes))

\* the same as a liveness property of SpecFair: a call under way leads to
\* its return or its abort
CallsEventuallyOver == Running ~> Over

\* a run returned whose walk recursed through a chain of nodes and left a
\* delegate chain of two steps in the cache, which it followed to the end
C19_Witness ==
  /\ pc = "done" /\ entry = "run"
  /\ StepsLeft = 0
  /\ \E i \in 1 .. Len(tensors) :
       /\ ChainSteps(memo, tensors[i]) >= 2
       /\ Cost(tensors[i]) >= 6

====
